---- MODULE Spec2Model ----
(***************************************************************************)
(* The drone gateway of src/drone.py as a state machine: the accept loop,  *)
(* one worker per sensor connection, the rolling statistics, the sender    *)
(* with its offline queue, the flush routine and the battery thread.       *)
(*                                                                         *)
(* Threads are Python threads: a step of the model is one source line (or  *)
(* one shared-memory access of it); steps that touch only thread-local     *)
(* names are folded into the next shared access of the same thread.        *)
(* Temperatures and humidities are whole units; an average is kept as the  *)
(* exact fraction <<sum, len>>; a text is a sequence of character codes.   *)
(***************************************************************************)
EXTENDS Integers, Sequences, FiniteSets, TLC

\* ------------------------------------------------------------ constants
TEMP_MIN == 18
TEMP_MAX == 27
HUM_MIN == 30
HUM_MAX == 60
\* deque(maxlen=10)
MAXLEN == 10
\* len(st.t) == 10
FULL_LEN == 10
\* ts[-8:]
LAST_LEN == 8
\* battery_level = 100 / battery_level >= 100
FULL_LEVEL == 100
\* battery_level <= 15
LOW_LEVEL == 15
\* round(avg, 2): packets carry hundredths
ROUND_SCALE == 100

\* ------------------------------------------------------------ bounds
\* sensor connections that may be opened
MaxConns == 2
\* frames the peers of SpecSend send in total
MaxFrames == 4
\* frames of one peer in SpecAgg
MaxReadings == 12
\* frames of one peer in SpecParse
MaxLines == 2
\* frames of each of two peers in SpecSend
MaxPair == 1

Conns == 1..MaxConns

\* ------------------------------------------------------------ JSON values
\* A JSON value: its kind and, for a number or a text, its content.
Num(n) == [k |-> "num", v |-> <<n>>]
Str(s) == [k |-> "str", v |-> s]
List == [k |-> "list", v |-> <<>>]
Missing == [k |-> "missing", v |-> <<>>]
NoValue == [k |-> "none", v |-> <<>>]

\* One unit of the byte stream: the newline, a text that is no JSON, or the
\* text of one JSON object with (some of) the four fields.
NL == [tag |-> "nl", sensor_id |-> Missing, temperature |-> Missing,
       humidity |-> Missing, timestamp |-> Missing]
Garbage == [tag |-> "garbage", sensor_id |-> Missing, temperature |-> Missing,
            humidity |-> Missing, timestamp |-> Missing]
Obj(sid, t, h, ts) == [tag |-> "obj", sensor_id |-> sid, temperature |-> t,
                       humidity |-> h, timestamp |-> ts]

\* sensor ids "1", "2", ... and a timestamp text longer than LAST_LEN
SidOf(c) == Str(<<c>>)
TsText == Str(<<1, 2, 3, 4, 5, 6, 7, 8, 9>>)
Reading(c, t, h) == Obj(SidOf(c), Num(t), Num(h), TsText)

\* ------------------------------------------------------------ sequences
RECURSIVE SumSeq(_)
SumSeq(s) == IF s = <<>> THEN 0 ELSE Head(s) + SumSeq(Tail(s))

\* s[-n:]
Suffix(s, n) == IF Len(s) <= n THEN s ELSE SubSeq(s, Len(s) - n + 1, Len(s))

\* position of the first x in s, 0 when there is none
RECURSIVE IndexOf(_, _, _)
IndexOf(s, x, i) ==
  IF i > Len(s) THEN 0 ELSE IF s[i] = x THEN i ELSE IndexOf(s, x, i + 1)

RECURSIVE Repeat(_, _)
Repeat(x, n) == IF n = 0 THEN <<>> ELSE <<x>> \o Repeat(x, n - 1)

RECURSIVE Flatten(_)
Flatten(ss) == IF ss = <<>> THEN <<>> ELSE Head(ss) \o Flatten(Tail(ss))

Range(s) == {s[i] : i \in 1..Len(s)}

\* ------------------------------------------------------------ Stats
\* Stats.__init__: empty windows, averages 0.0, last "—", no anomaly
NewStats == [t |-> <<>>, h |-> <<>>, avg_t |-> <<0, 1>>, avg_h |-> <<0, 1>>,
             last |-> <<8212>>, anom |-> 0]

\* a plain list in place of the bounded deque: nothing is ever evicted
DequeAppend_unbounded(w, x) == Append(w, x)

\* deque(maxlen=10).append: the oldest entry leaves a full window
DequeAppend(w, x) ==
  IF Len(w) >= MAXLEN THEN Tail(w) \o <<x>> ELSE Append(w, x)

\* sum(w) / len(w), as the exact fraction
Mean(w) == <<SumSeq(w), Len(w)>>

\* bad = not (TEMP_MIN <= tt <= TEMP_MAX and HUM_MIN <= hh <= HUM_MAX)
IsBad(tt, hh) ==
  ~(TEMP_MIN <= tt /\ tt <= TEMP_MAX /\ HUM_MIN <= hh /\ hh <= HUM_MAX)

\* ts[-8:] works on a text (and on a list); a number or null raises TypeError
Sliceable(ts) == ts.k \in {"str", "list"}

\* a dict key must be hashable: a list (or an object) raises TypeError
Hashable(v) == v.k # "list"

\* Stats.add run without interruption: what one reading does to a Stats
StatsAdd(st, tt, hh, ts) ==
  LET t1 == DequeAppend(st.t, tt)
      h1 == DequeAppend(st.h, hh)
  IN [t |-> t1, h |-> h1, avg_t |-> Mean(t1), avg_h |-> Mean(h1),
      last |-> Suffix(ts.v, LAST_LEN),
      anom |-> IF IsBad(tt, hh) THEN st.anom + 1 ELSE st.anom]

RECURSIVE StatsAfter(_)
\* the Stats of a sensor after the readings rs (pairs <<tt, hh>>), in order
StatsAfter(rs) ==
  IF rs = <<>> THEN NewStats
  ELSE LET r == rs[Len(rs)]
       IN StatsAdd(StatsAfter(SubSeq(rs, 1, Len(rs) - 1)), r[1], r[2], TsText)

\* ------------------------------------------------------------ parsing
\* float(v): a number converts; a missing field, a text that is no number or
\* a list raises (KeyError, ValueError, TypeError)
Floatable(v) == v.k = "num"

\* lines 152-156: json.loads and the four field reads; sid is assigned as
\* soon as the sensor_id field is read, also when a later field raises
ParseLine(line, oldsid) ==
  IF Len(line) # 1 \/ line[1].tag # "obj" \/ line[1].sensor_id.k = "missing"
  THEN [ok |-> FALSE, sid |-> oldsid, t |-> 0, h |-> 0, ts |-> NoValue]
  ELSE LET j == line[1]
           good == /\ Floatable(j.temperature)
                   /\ Floatable(j.humidity)
                   /\ j.timestamp.k # "missing"
       IN [ok |-> good, sid |-> j.sensor_id,
           t |-> IF good THEN j.temperature.v[1] ELSE 0,
           h |-> IF good THEN j.humidity.v[1] ELSE 0,
           ts |-> IF good THEN j.timestamp ELSE NoValue]

\* ------------------------------------------------------------ packets
\* round(sum/len, 2) in hundredths, ties to even
Round2(avg) ==
  LET q == (avg[1] * ROUND_SCALE) \div avg[2]
      r == (avg[1] * ROUND_SCALE) % avg[2]
  IN IF 2 * r < avg[2] THEN q
     ELSE IF 2 * r > avg[2] THEN q + 1
     ELSE IF q % 2 = 0 THEN q ELSE q + 1

\* the dict built at line 205; id stands for the object's identity (and its
\* creation time, utc_now())
MakePacket(id, k, avg_temp, avg_hum, anomaly_count) ==
  [id |-> id, sensor_id |-> k, avg_temp |-> Round2(avg_temp),
   avg_hum |-> Round2(avg_hum), anomaly_count |-> anomaly_count]

NoPacket == [id |-> 0, sensor_id |-> NoValue, avg_temp |-> 0, avg_hum |-> 0,
             anomaly_count |-> 0]

Ids(q) == {q[i].id : i \in 1..Len(q)}

\* ------------------------------------------------------------ state
VARIABLES
  listening_event, charging_event, stop_event,
  battery_level, is_discharging, bpc, fpacket,
  packet_queue, sock, lock,
  lsock, lpc, backlog, ep,
  wpc, buf, sid, cur, reg, pkt,
  stream, wire, closed,
  sensors,
  sent, created, tally, returned, before, fl, acc, pre, goodlog, late,
  held

flags == <<listening_event, charging_event, stop_event>>
bat == <<battery_level, is_discharging, bpc, fpacket>>
snd == <<packet_queue, sock, lock>>
lis == <<lsock, lpc, backlog, ep>>
wrk == <<wpc, buf, sid, cur, reg, pkt>>
net == <<stream, wire, closed>>
hist == <<sent, created, tally, returned, before, fl, acc, pre,
         goodlog, late, held>>
vars == <<flags, bat, snd, lis, wrk, net, sensors, hist>>

\* a connection whose worker thread is running
Running(c) == wpc[c] \notin {"idle", "backlog", "done", "crashed"}

\* conn.recv(1024)
RECV_SIZE == 1024

\* a worker inside conn.recv with nothing to read on an open connection
BlockedInRecv(c) == wpc[c] = "recv" /\ wire[c] = <<>> /\ ~closed[c]

\* what the history keeps of one run of flush_queue
FlIdle == [on |-> FALSE, done |-> FALSE, failed |-> FALSE, q0 |-> <<>>,
           tx |-> <<>>, tried |-> <<>>, app |-> <<>>, endq |-> <<>>,
           owed |-> 0]

NoCur == [t |-> 0, h |-> 0, ts |-> NoValue]

\* insert(0, packet) in place of append: the newest packet goes first
QueuePut_front(q, p) == <<p>> \o q

\* list.append
QueuePut(q, p) == Append(q, p)

\* packet_queue.append(packet) (the history notes an append made during a flush)
Enqueue(p) ==
  /\ packet_queue' = QueuePut(packet_queue, p)
  /\ fl' = IF fl.on THEN [fl EXCEPT !.app = Append(@, p)] ELSE fl

\* buf = data in place of buf += data: what was buffered is dropped
BufAdd_replace(b, data) == data

\* line 148: buf += data
BufAdd(b, data) == b \o data

\* A frame as section 6 of the specification defines it: one JSON object with
\* a text sensor_id, numeric temperature and humidity and a text timestamp.
WellFormed(line) ==
  /\ Len(line) = 1
  /\ line[1].tag = "obj"
  /\ line[1].sensor_id.k = "str"
  /\ line[1].temperature.k = "num"
  /\ line[1].humidity.k = "num"
  /\ line[1].timestamp.k = "str"

\* the history of well-formed readings per sensor id, after the first line of
\* b (if b holds a whole line) has been taken off
Logged(log, b) ==
  LET i == IndexOf(b, NL, 1)
      line == SubSeq(b, 1, i - 1)
  IN IF i = 0 \/ ~WellFormed(line) THEN log
     ELSE LET k == line[1].sensor_id
              r == <<line[1].temperature.v[1], line[1].humidity.v[1]>>
          IN IF k \in DOMAIN log THEN [log EXCEPT ![k] = Append(@, r)]
             ELSE log @@ (k :> <<r>>)

\* ------------------------------------------------------------ worker: handle(conn)
\* while not stop_event.is_set(): the listening flag is not looked at
WCheck_deaf(c) ==
  /\ wpc[c] = "check"
  /\ wpc' = [wpc EXCEPT ![c] = IF ~stop_event THEN "recv" ELSE "done"]
  /\ UNCHANGED <<flags, bat, snd, lis, buf, sid, cur, reg, pkt, net, sensors, hist>>

\* line 144: while not stop_event.is_set() and listening_event.is_set()
\* (leaving the loop closes the connection and ends the thread, 165-166)
WCheck(c) ==
  /\ wpc[c] = "check"
  /\ wpc' = [wpc EXCEPT ![c] =
              IF ~stop_event /\ listening_event THEN "recv" ELSE "done"]
  /\ UNCHANGED <<flags, bat, snd, lis, buf, sid, cur, reg, pkt, net, sensors, hist>>

\* lines 145-148: data = conn.recv(1024) blocks until bytes are there or the
\* peer has closed (b"": break); buf += data
\* (the history late notes the workers whose recv returned bytes since the
\* listening flag was last cleared)
WRecv(c) ==
  /\ wpc[c] = "recv"
  /\ wire[c] # <<>> \/ closed[c]
  /\ IF wire[c] # <<>>
     THEN LET n == IF Len(wire[c]) < RECV_SIZE THEN Len(wire[c]) ELSE RECV_SIZE
          IN /\ buf' = [buf EXCEPT ![c] = BufAdd(@, SubSeq(wire[c], 1, n))]
             /\ wire' = [wire EXCEPT ![c] = SubSeq(@, n + 1, Len(@))]
             /\ wpc' = [wpc EXCEPT ![c] = "frames"]
             /\ late' = IF listening_event THEN late ELSE late \cup {c}
     ELSE /\ wpc' = [wpc EXCEPT ![c] = "done"]
          /\ UNCHANGED <<buf, wire, late, held>>
  /\ UNCHANGED <<flags, bat, snd, lis, sid, cur, reg, pkt, stream, closed,
                 sensors,
                 sent, created, tally, returned, before, fl, acc, pre, goodlog,
                 held>>

\* lines 149-158: while b'\n' in buf: split off one line and parse it; a line
\* that raises is skipped (continue)
WFrame(c) ==
  /\ wpc[c] = "frames"
  /\ LET i == IndexOf(buf[c], NL, 1)
     IN IF i = 0
        THEN /\ wpc' = [wpc EXCEPT ![c] = "check"]
             /\ UNCHANGED <<buf, sid, cur>>
        ELSE LET p == ParseLine(SubSeq(buf[c], 1, i - 1), sid[c])
             IN /\ buf' = [buf EXCEPT ![c] = SubSeq(@, i + 1, Len(@))]
                /\ sid' = [sid EXCEPT ![c] = p.sid]
                /\ cur' = [cur EXCEPT ![c] =
                            IF p.ok THEN [t |-> p.t, h |-> p.h, ts |-> p.ts] ELSE @]
                /\ wpc' = [wpc EXCEPT ![c] = IF p.ok THEN "setdefault" ELSE "frames"]
  /\ goodlog' = Logged(goodlog, buf[c])
  /\ UNCHANGED <<flags, bat, snd, lis, reg, pkt, net, sensors,
                 sent, created, tally, returned, before, fl, acc, pre, late, held>>

\* line 159: st = sensors.setdefault(sid, Stats()); an unhashable sid raises
\* TypeError outside the try block and ends the thread
WSetdefault(c) ==
  /\ wpc[c] = "setdefault"
  /\ IF ~Hashable(sid[c])
     THEN /\ wpc' = [wpc EXCEPT ![c] = "crashed"]
          /\ UNCHANGED <<sensors, tally>>
     ELSE /\ wpc' = [wpc EXCEPT ![c] = "add_t"]
          /\ sensors' = IF sid[c] \in DOMAIN sensors THEN sensors
                        ELSE sensors @@ (sid[c] :> NewStats)
          /\ LET old == IF sid[c] \in DOMAIN tally THEN tally[sid[c]]
                        ELSE [n |-> 0, bad |-> 0, sends |-> 0]
                 out == cur[c].t < TEMP_MIN \/ cur[c].t > TEMP_MAX
                        \/ cur[c].h < HUM_MIN \/ cur[c].h > HUM_MAX
                 new == [old EXCEPT !.n = @ + 1,
                                    !.bad = IF out THEN @ + 1 ELSE @]
             IN tally' = IF sid[c] \in DOMAIN tally
                         THEN [tally EXCEPT ![sid[c]] = new]
                         ELSE tally @@ (sid[c] :> new)
  /\ UNCHANGED <<flags, bat, snd, lis, buf, sid, cur, reg, pkt, net,
                 sent, created, returned, before, fl, acc, pre, goodlog, late, held>>

\* line 58: self.t.append(tt)
WAddT(c) ==
  /\ wpc[c] = "add_t"
  /\ sensors' = [sensors EXCEPT ![sid[c]].t = DequeAppend(@, cur[c].t)]
  /\ wpc' = [wpc EXCEPT ![c] = "add_h"]
  /\ UNCHANGED <<flags, bat, snd, lis, buf, sid, cur, reg, pkt, net, hist>>

\* line 59: self.h.append(hh)
WAddH(c) ==
  /\ wpc[c] = "add_h"
  /\ sensors' = [sensors EXCEPT ![sid[c]].h = DequeAppend(@, cur[c].h)]
  /\ wpc' = [wpc EXCEPT ![c] = "avg_t"]
  /\ UNCHANGED <<flags, bat, snd, lis, buf, sid, cur, reg, pkt, net, hist>>

\* line 60: self.avg_t = sum(self.t) / len(self.t)
WAvgT(c) ==
  /\ wpc[c] = "avg_t"
  /\ sensors' = [sensors EXCEPT ![sid[c]].avg_t = Mean(sensors[sid[c]].t)]
  /\ wpc' = [wpc EXCEPT ![c] = "avg_h"]
  /\ UNCHANGED <<flags, bat, snd, lis, buf, sid, cur, reg, pkt, net, hist>>

\* line 61: self.avg_h = sum(self.h) / len(self.h)
WAvgH(c) ==
  /\ wpc[c] = "avg_h"
  /\ sensors' = [sensors EXCEPT ![sid[c]].avg_h = Mean(sensors[sid[c]].h)]
  /\ wpc' = [wpc EXCEPT ![c] = "last"]
  /\ UNCHANGED <<flags, bat, snd, lis, buf, sid, cur, reg, pkt, net, hist>>

\* lines 62-64: self.last = ts[-8:] (TypeError for a timestamp that cannot be
\* sliced: the thread ends); bad = ...; if bad:
WLast(c) ==
  /\ wpc[c] = "last"
  /\ IF ~Sliceable(cur[c].ts)
     THEN /\ wpc' = [wpc EXCEPT ![c] = "crashed"]
          /\ UNCHANGED sensors
     ELSE /\ sensors' = [sensors EXCEPT ![sid[c]].last = Suffix(cur[c].ts.v, LAST_LEN)]
          /\ wpc' = [wpc EXCEPT ![c] =
                      IF IsBad(cur[c].t, cur[c].h) THEN "anom_ld" ELSE "lenchk"]
  /\ UNCHANGED <<flags, bat, snd, lis, buf, sid, cur, reg, pkt, net, hist>>

\* line 65, self.anom += 1: the read of self.anom
WAnomLd(c) ==
  /\ wpc[c] = "anom_ld"
  /\ reg' = [reg EXCEPT ![c] = sensors[sid[c]].anom]
  /\ wpc' = [wpc EXCEPT ![c] = "anom_st"]
  /\ UNCHANGED <<flags, bat, snd, lis, buf, sid, cur, pkt, net, sensors, hist>>

\* line 65, self.anom += 1: the write of the sum
WAnomSt(c) ==
  /\ wpc[c] = "anom_st"
  /\ sensors' = [sensors EXCEPT ![sid[c]].anom = reg[c] + 1]
  /\ reg' = [reg EXCEPT ![c] = 0]
  /\ wpc' = [wpc EXCEPT ![c] = "lenchk"]
  /\ UNCHANGED <<flags, bat, snd, lis, buf, sid, cur, pkt, net, hist>>

\* lines 161-163: the log line, then if len(st.t) == 10
WLenChk(c) ==
  /\ wpc[c] = "lenchk"
  /\ wpc' = [wpc EXCEPT ![c] =
              IF Len(sensors[sid[c]].t) = FULL_LEN THEN "call" ELSE "frames"]
  /\ UNCHANGED <<flags, bat, snd, lis, buf, sid, cur, reg, pkt, net, sensors, hist>>

\* lines 164 and 205: send_avg(sid, st.avg_t, st.avg_h, st.anom) builds the packet
WCall(c) ==
  /\ wpc[c] = "call"
  /\ LET st == sensors[sid[c]]
     IN pkt' = [pkt EXCEPT ![c] =
                 MakePacket(created + 1, sid[c], st.avg_t, st.avg_h, st.anom)]
  /\ created' = created + 1
  /\ tally' = [tally EXCEPT ![sid[c]].sends = @ + 1]
  /\ before' = Append(before, returned)
  /\ wpc' = [wpc EXCEPT ![c] = "chk_chg"]
  /\ UNCHANGED <<flags, bat, snd, lis, buf, sid, cur, reg, net, sensors,
                 sent, returned, fl, acc, pre, goodlog, late, held>>

\* ------------------------------------------------------------ sender: make_sender.send
\* lines 207-209: if charging_event.is_set(): packet_queue.append(packet); return
WChkChg(c) ==
  /\ wpc[c] = "chk_chg"
  /\ IF charging_event
     THEN /\ Enqueue(pkt[c])
          /\ returned' = returned \cup {pkt[c].id}
          /\ pkt' = [pkt EXCEPT ![c] = NoPacket]
          /\ wpc' = [wpc EXCEPT ![c] = "frames"]
     ELSE /\ wpc' = [wpc EXCEPT ![c] = "lock"]
          /\ UNCHANGED <<packet_queue, fl, returned, pkt>>
  /\ UNCHANGED <<flags, bat, sock, lock, lis, buf, sid, cur, reg, net, sensors,
                 sent, created, tally, before, acc, pre, goodlog, late, held>>

\* with lock: ... without the test of sock: every send connects anew
WLock_fresh(c) ==
  /\ wpc[c] = "lock"
  /\ lock = 0
  /\ lock' = c
  /\ wpc' = [wpc EXCEPT ![c] = "conn"]
  /\ UNCHANGED <<flags, bat, packet_queue, sock, lis, buf, sid, cur, reg, pkt,
                 net, sensors, hist>>

\* lines 211-213: with lock: ... if sock is None
WLock(c) ==
  /\ wpc[c] = "lock"
  /\ lock = 0
  /\ lock' = c
  /\ wpc' = [wpc EXCEPT ![c] = IF sock = "none" THEN "conn" ELSE "tx"]
  /\ UNCHANGED <<flags, bat, packet_queue, sock, lis, buf, sid, cur, reg, pkt,
                 net, sensors, hist>>

\* the return with the lock still held
SendFallback_hold(c) ==
  /\ Enqueue(pkt[c])
  /\ returned' = returned \cup {pkt[c].id}
  /\ pkt' = [pkt EXCEPT ![c] = NoPacket]
  /\ UNCHANGED lock
  /\ wpc' = [wpc EXCEPT ![c] = "frames"]

\* the return without the append: the packet is dropped
SendFallback_lose(c) ==
  /\ returned' = returned \cup {pkt[c].id}
  /\ pkt' = [pkt EXCEPT ![c] = NoPacket]
  /\ lock' = 0
  /\ wpc' = [wpc EXCEPT ![c] = "frames"]
  /\ UNCHANGED <<packet_queue, fl>>

\* what a send does with its packet once connecting or sending has raised:
\* packet_queue.append(packet), and the return leaves the with block
SendFallback(c) ==
  /\ Enqueue(pkt[c])
  /\ returned' = returned \cup {pkt[c].id}
  /\ pkt' = [pkt EXCEPT ![c] = NoPacket]
  /\ lock' = 0
  /\ wpc' = [wpc EXCEPT ![c] = "frames"]

\* lines 214-219: sock = socket.create_connection(..., timeout=2); when it
\* raises: log, packet_queue.append(packet), return
\* (the history held counts the connections send has opened and not closed)
WConn(c) ==
  /\ wpc[c] = "conn"
  /\ \E ok \in BOOLEAN :
       IF ok
       THEN /\ sock' = "open"
            /\ held' = held + 1
            /\ wpc' = [wpc EXCEPT ![c] = "tx"]
            /\ UNCHANGED <<packet_queue, lock, pkt, returned, fl>>
       ELSE /\ SendFallback(c)
            /\ UNCHANGED <<sock, held>>
  /\ UNCHANGED <<flags, bat, lis, buf, sid, cur, reg, net, sensors,
                 sent, created, tally, before, acc, pre, goodlog, late>>

\* the handler without sock = None: the broken connection is kept
TxFailure_keep(c) ==
  /\ UNCHANGED sock
  /\ held' = held - 1
  /\ SendFallback(c)

\* lines 222-226: sendall has raised: log, sock.close(), sock = None,
\* packet_queue.append(packet)
TxFailure(c) ==
  /\ sock' = "none"
  /\ held' = held - 1
  /\ SendFallback(c)

\* lines 220-226: sock.sendall(message), or the exception handler
WTx(c) ==
  /\ wpc[c] = "tx"
  /\ \E ok \in BOOLEAN :
       IF ok
       THEN /\ sent' = Append(sent, [id |-> pkt[c].id, via |-> "send",
                                     chg |-> charging_event])
            /\ returned' = returned \cup {pkt[c].id}
            /\ pkt' = [pkt EXCEPT ![c] = NoPacket]
            /\ lock' = 0
            /\ wpc' = [wpc EXCEPT ![c] = "frames"]
            /\ UNCHANGED <<packet_queue, sock, fl, held>>
       ELSE /\ TxFailure(c)
            /\ UNCHANGED sent
  /\ UNCHANGED <<flags, bat, lis, buf, sid, cur, reg, net, sensors,
                 created, tally, before, acc, pre, goodlog, late>>

\* ------------------------------------------------------------ battery thread
\* += 1 whatever the direction
TickLevel_up(level, dis) == level + 1

\* line 257: battery_level += -1 if is_discharging else +1
TickLevel(level, dis) == level + (IF dis THEN -1 ELSE 1)

\* the tests of lines 259 and 264
Crossed(level, dis) ==
  \/ dis /\ level <= LOW_LEVEL
  \/ ~dis /\ level >= FULL_LEVEL

RECURSIVE LevelAtCrossing(_, _)
\* the level after as many iterations of the loop as it takes to pass one of
\* the two tests
LevelAtCrossing(level, dis) ==
  LET l == TickLevel(level, dis)
  IN IF Crossed(l, dis) THEN l ELSE LevelAtCrossing(l, dis)

\* lines 257-260 and 264-265 with the new level lvl: store it, test the
\* thresholds and flip the thread's own is_discharging
BStep(lvl) ==
  /\ bpc = "tick"
  /\ battery_level' = lvl
  /\ IF is_discharging /\ lvl <= LOW_LEVEL
     THEN is_discharging' = FALSE /\ bpc' = "low_clear"
     ELSE IF ~is_discharging /\ lvl >= FULL_LEVEL
          THEN is_discharging' = TRUE /\ bpc' = "full_set"
          ELSE UNCHANGED <<is_discharging, bpc>>
  /\ fl' = [FlIdle EXCEPT !.owed = fl.owed +
                 (IF ~is_discharging /\ lvl >= FULL_LEVEL THEN 1 ELSE 0)]
  /\ UNCHANGED <<flags, fpacket, snd, lis, wrk, net, sensors,
                 sent, created, tally, returned, before, acc, pre, goodlog, late, held>>

\* lines 255-265, one iteration of the loop: sleep one step, move the level by one
BTick == BStep(TickLevel(battery_level, is_discharging))

\* lines 255-265, the iterations up to and including the next one that passes
\* a threshold test: the iterations before it change only the thread's own
\* battery_level, and are folded into it
BRun == BStep(LevelAtCrossing(battery_level, is_discharging))

\* line 261: listening_event.clear()
BLowClear ==
  /\ bpc = "low_clear"
  /\ listening_event' = FALSE
  /\ bpc' = "low_set"
  /\ acc' = 0
  /\ pre' = {c \in Conns : BlockedInRecv(c)}
  /\ late' = {}
  /\ UNCHANGED <<charging_event, stop_event, battery_level, is_discharging,
                 fpacket, snd, lis, wrk, net, sensors,
                 sent, created, tally, returned, before, fl, goodlog, held>>

\* line 263 without line 262: the charging flag is not set
BLowSet_unset ==
  /\ bpc = "low_set"
  /\ bpc' = "tick"
  /\ UNCHANGED <<flags, battery_level, is_discharging,
                 fpacket, snd, lis, wrk, net, sensors, hist>>

\* lines 262-263: charging_event.set()
BLowSet ==
  /\ bpc = "low_set"
  /\ charging_event' = TRUE
  /\ bpc' = "tick"
  /\ UNCHANGED <<listening_event, stop_event, battery_level, is_discharging,
                 fpacket, snd, lis, wrk, net, sensors, hist>>

\* line 266: listening_event.set()
BFullSet ==
  /\ bpc = "full_set"
  /\ listening_event' = TRUE
  /\ bpc' = "full_clear"
  /\ late' = {}
  /\ UNCHANGED <<charging_event, stop_event, battery_level, is_discharging,
                 fpacket, snd, lis, wrk, net, sensors,
                 sent, created, tally, returned, before, fl, acc, pre, goodlog,
                 held>>

\* lines 267-268 without line 269: flush_queue is not called
BFullClear_noflush ==
  /\ bpc = "full_clear"
  /\ charging_event' = FALSE
  /\ bpc' = "tick"
  /\ UNCHANGED <<listening_event, stop_event, battery_level, is_discharging,
                 fpacket, snd, lis, wrk, net, sensors, hist>>

\* lines 267-269: charging_event.clear(), the log line and the call of flush_queue
BFullClear ==
  /\ bpc = "full_clear"
  /\ charging_event' = FALSE
  /\ bpc' = "flush"
  /\ fl' = [FlIdle EXCEPT !.on = TRUE, !.q0 = packet_queue,
                         !.owed = fl.owed - 1]
  /\ UNCHANGED <<listening_event, stop_event, battery_level, is_discharging,
                 fpacket, snd, lis, wrk, net, sensors,
                 sent, created, tally, returned, before, acc, pre, goodlog, late, held>>

\* ------------------------------------------------------------ flush_queue
\* pop() in place of pop(0): the newest packet is taken
PopIndex_last(q) == Len(q)

\* line 235: pop(0) takes the first element
PopIndex(q) == 1

\* list.pop(i): the list without its i-th element
Without(q, i) == SubSeq(q, 1, i - 1) \o SubSeq(q, i + 1, Len(q))

\* lines 234-235: while packet_queue: packet = packet_queue.pop(0)
BFlush ==
  /\ bpc = "flush"
  /\ IF packet_queue = <<>>
     THEN /\ bpc' = "tick"
          /\ fl' = [fl EXCEPT !.on = FALSE, !.done = TRUE, !.endq = packet_queue]
          /\ UNCHANGED <<fpacket, packet_queue>>
     ELSE /\ fpacket' = packet_queue[PopIndex(packet_queue)]
          /\ packet_queue' = Without(packet_queue, PopIndex(packet_queue))
          /\ bpc' = "flush_tx"
          /\ UNCHANGED fl
  /\ UNCHANGED <<flags, battery_level, is_discharging, sock, lock, lis, wrk, net,
                 sensors, sent, created, tally, returned, before, acc,
                 pre, goodlog, late, held>>

\* lines 236-241: a fresh connection and sendall of the packet, or an exception
BFlushTx ==
  /\ bpc = "flush_tx"
  /\ \E ok \in BOOLEAN :
       IF ok
       THEN /\ sent' = Append(sent, [id |-> fpacket.id, via |-> "flush",
                                     chg |-> charging_event])
            /\ fl' = [fl EXCEPT !.tx = Append(@, fpacket),
                                !.tried = Append(@, fpacket)]
            /\ fpacket' = NoPacket
            /\ bpc' = "flush"
       ELSE /\ fl' = [fl EXCEPT !.failed = TRUE, !.tried = Append(@, fpacket)]
            /\ bpc' = "flush_requeue"
            /\ UNCHANGED <<sent, fpacket>>
  /\ UNCHANGED <<flags, battery_level, is_discharging, snd, lis, wrk, net,
                 sensors, created, tally, returned, before, acc, pre, goodlog, late, held>>

\* append in place of insert(0, packet): the failed packet goes last
Requeue_back(q, p) == Append(q, p)

\* line 242: packet_queue.insert(0, packet)
Requeue(q, p) == <<p>> \o q

\* lines 242-243: packet_queue.insert(0, packet); break
BFlushRequeue ==
  /\ bpc = "flush_requeue"
  /\ packet_queue' = Requeue(packet_queue, fpacket)
  /\ fpacket' = NoPacket
  /\ bpc' = "tick"
  /\ fl' = [fl EXCEPT !.on = FALSE, !.done = TRUE,
                      !.endq = Requeue(packet_queue, fpacket)]
  /\ UNCHANGED <<flags, battery_level, is_discharging, sock, lock, lis, wrk, net,
                 sensors, sent, created, tally, returned, before, acc,
                 pre, goodlog, late, held>>

\* ------------------------------------------------------------ accept loop: listener
\* the history of the accepting endpoint: n endpoints are bound and not
\* closed, closed says that one has been closed before, re that the latest
\* was bound after one had been closed
Bound(e) == [n |-> e.n + 1, closed |-> e.closed, re |-> e.closed]

Shut(e) == [n |-> e.n - 1, closed |-> TRUE, re |-> e.re]

\* line 170 without `and sock is None`: an endpoint is bound on every turn of
\* the loop made with the flag set
LTop_rebind ==
  /\ lpc = "top"
  /\ ~stop_event
  /\ lpc' = "pause"
  /\ lsock' = IF listening_event THEN "open" ELSE lsock
  /\ ep' = IF listening_event THEN Bound(ep) ELSE ep
  /\ UNCHANGED <<backlog, wpc>>
  /\ UNCHANGED <<flags, bat, snd, buf, sid, cur, reg, pkt, net, sensors, hist>>

\* lines 169-176: while not stop_event.is_set(): if listening_event.is_set()
\* and sock is None: open the endpoint (after the loop, 190-191: close it)
LTop ==
  /\ lpc = "top"
  /\ IF stop_event
     THEN /\ lpc' = "exit" /\ lsock' = "none" /\ backlog' = {}
          /\ ep' = IF lsock = "open" THEN Shut(ep) ELSE ep
     ELSE /\ lpc' = "pause"
          /\ lsock' = IF listening_event /\ lsock = "none" THEN "open" ELSE lsock
          /\ ep' = IF listening_event /\ lsock = "none" THEN Bound(ep) ELSE ep
          /\ UNCHANGED backlog
  /\ wpc' = IF stop_event
            THEN [c \in Conns |-> IF wpc[c] = "backlog" THEN "idle" ELSE wpc[c]]
            ELSE wpc
  /\ UNCHANGED <<flags, bat, snd, buf, sid, cur, reg, pkt, net, sensors, hist>>

\* the loop without lines 177-180: the endpoint stays open while paused
LPause_open ==
  /\ lpc = "pause"
  /\ lpc' = "acc"
  /\ UNCHANGED <<lsock, backlog, wpc, ep>>
  /\ UNCHANGED <<flags, bat, snd, buf, sid, cur, reg, pkt, net, sensors, hist>>

\* lines 177-180: if not listening_event.is_set() and sock: sock.close();
\* connections still waiting in the backlog are reset
LPause ==
  /\ lpc = "pause"
  /\ lpc' = "acc"
  /\ IF ~listening_event /\ lsock = "open"
     THEN /\ lsock' = "none"
          /\ ep' = Shut(ep)
          /\ backlog' = {}
          /\ wpc' = [c \in Conns |-> IF wpc[c] = "backlog" THEN "idle" ELSE wpc[c]]
     ELSE UNCHANGED <<lsock, backlog, wpc, ep>>
  /\ UNCHANGED <<flags, bat, snd, buf, sid, cur, reg, pkt, net, sensors, hist>>

\* lines 183-185: conn, _ = sock.accept(); Thread(target=handle).start()
Accept(c) ==
  /\ backlog' = backlog \ {c}
  /\ wpc' = [wpc EXCEPT ![c] = "check"]
  /\ acc' = IF listening_event THEN acc ELSE acc + 1

\* lines 181-189: if sock: accept a waiting connection, or time out after a
\* second with none; else: time.sleep(0.1)
LAcc ==
  /\ lpc = "acc"
  /\ lpc' = "top"
  /\ IF lsock = "open"
     THEN \/ \E c \in backlog : Accept(c)
          \/ backlog = {} /\ UNCHANGED <<backlog, wpc, acc>>
     ELSE UNCHANGED <<backlog, wpc, acc>>
  /\ UNCHANGED <<flags, bat, snd, lsock, ep, buf, sid, cur, reg, pkt, net,
                 sensors, sent, created, tally, returned, before, fl, pre,
                 goodlog, late, held>>

\* ------------------------------------------------------------ peers and network
\* a sensor node connects to the open endpoint (src/sensor.py, sensor_loop)
PeerConnect(c) ==
  /\ wpc[c] = "idle"
  /\ lsock = "open"
  /\ wpc' = [wpc EXCEPT ![c] = "backlog"]
  /\ backlog' = backlog \cup {c}
  /\ UNCHANGED <<flags, bat, snd, lsock, lpc, ep, buf, sid, cur, reg, pkt, net,
                 sensors, hist>>

\* the next k bytes of the peer's stream reach the connection's receive buffer
NetDeliver(c, k) ==
  /\ Running(c)
  /\ ~closed[c]
  /\ k \in 1..Len(stream[c])
  /\ wire' = [wire EXCEPT ![c] = @ \o SubSeq(stream[c], 1, k)]
  /\ stream' = [stream EXCEPT ![c] = SubSeq(@, k + 1, Len(@))]
  /\ UNCHANGED <<flags, bat, snd, lis, wrk, closed, sensors, hist>>

\* the sensor sends one frame, json.dumps(data) + "\n", once the previous one
\* has been read
PeerFrame(c) ==
  /\ wire[c] = <<>>
  /\ NetDeliver(c, IndexOf(stream[c], NL, 1))

\* the peer closes its end
PeerClose(c) ==
  /\ Running(c)
  /\ ~closed[c]
  /\ closed' = [closed EXCEPT ![c] = TRUE]
  /\ UNCHANGED <<flags, bat, snd, lis, wrk, stream, wire, sensors, hist>>

\* ------------------------------------------------------------ composition
WorkerLoop(c) == WCheck(c) \/ WRecv(c) \/ WFrame(c)

WorkerAdd(c) ==
  \/ WSetdefault(c) \/ WAddT(c) \/ WAddH(c) \/ WAvgT(c) \/ WAvgH(c)
  \/ WLast(c) \/ WAnomLd(c) \/ WAnomSt(c) \/ WLenChk(c)

WorkerSend(c) == WCall(c) \/ WChkChg(c) \/ WLock(c) \/ WConn(c) \/ WTx(c)

\* what the battery thread does at a threshold, and flush_queue
Transitions ==
  \/ BLowClear \/ BLowSet \/ BFullSet \/ BFullClear
  \/ BFlush \/ BFlushTx \/ BFlushRequeue

\* the battery thread, tick by tick
Battery == BTick \/ Transitions

\* the battery thread, from threshold to threshold
BatteryFolded == BRun \/ Transitions

Listener == LTop \/ LPause \/ LAcc

\* ------------------------------------------------------------ initial states
\* main, lines 286-292, and each thread at its first line; the parameters are
\* what the environment and an earlier part of the run provide: the bytes each
\* peer will send, the connections already accepted, the statistics and the
\* queue left by earlier connections
InitWith(streams, accepted, sens, queue) ==
  /\ listening_event = TRUE
  /\ charging_event = FALSE
  /\ stop_event = FALSE
  /\ battery_level = FULL_LEVEL
  /\ is_discharging = TRUE
  /\ bpc = "tick"
  /\ fpacket = NoPacket
  /\ packet_queue = queue
  /\ sock = "none"
  /\ lock = 0
  /\ lsock = IF accepted = {} THEN "none" ELSE "open"
  /\ lpc = "top"
  /\ backlog = {}
  /\ ep = [n |-> IF accepted = {} THEN 0 ELSE 1, closed |-> FALSE, re |-> FALSE]
  /\ wpc = [c \in Conns |-> IF c \in accepted THEN "check" ELSE "idle"]
  /\ buf = [c \in Conns |-> <<>>]
  /\ sid = [c \in Conns |-> NoValue]
  /\ cur = [c \in Conns |-> NoCur]
  /\ reg = [c \in Conns |-> 0]
  /\ pkt = [c \in Conns |-> NoPacket]
  /\ stream = streams
  /\ wire = [c \in Conns |-> <<>>]
  /\ closed = [c \in Conns |-> FALSE]
  /\ sensors = sens
  /\ sent = <<>>
  /\ created = Len(queue)
  /\ tally = [k \in DOMAIN sens |->
               [n |-> Len(sens[k].t), bad |-> sens[k].anom, sends |-> 0]]
  /\ returned = Ids(queue)
  /\ before = [i \in 1..Len(queue) |-> 1..(i - 1)]
  /\ fl = FlIdle
  /\ acc = 0
  /\ pre = {}
  /\ late = {}
  /\ held = 0
  /\ goodlog = [k \in DOMAIN sens |->
                 [i \in 1..Len(sens[k].t) |-> <<sens[k].t[i], sens[k].h[i]>>]]

NoSensors == [k \in {} |-> NewStats]

\* ------------------------------------------------------------ SpecAgg
\* One sensor on one connection, accepted at start-up, sends MaxReadings valid
\* readings, one of them possibly out of range; each connect and each sendall
\* to the collector may fail. The run lies within one discharge of the battery
\* (the 85 seconds before the level first reaches LOW_LEVEL), so the battery
\* thread changes no flag; SpecSend has the power transitions.
FrameOf(c, t, h) == <<Reading(c, t, h), NL>>

AggStreams ==
  {Flatten([i \in 1..MaxReadings |-> FrameOf(1, IF i = hot THEN 35 ELSE 20, 50)]) :
     hot \in 0..MaxReadings}

InitAgg ==
  \E s \in AggStreams :
    InitWith([c \in Conns |-> IF c = 1 THEN s ELSE <<>>], {1}, NoSensors, <<>>)

NextAgg ==
  \/ \E c \in Conns : WorkerLoop(c) \/ WorkerAdd(c) \/ WorkerSend(c)
  \/ \E c \in Conns : PeerFrame(c) \/ PeerClose(c)

SpecAgg == InitAgg /\ [][NextAgg]_vars

\* a worker that is not between taking a reading in and deciding on its send
Settled(c) ==
  wpc[c] \notin {"add_t", "add_h", "avg_t", "avg_h", "last", "anom_ld",
                 "anom_st", "lenchk", "call"}

AllSettled == \A c \in Conns : Settled(c)

ParseLines ==
  { <<Reading(1, 20, 50)>>, <<Reading(1, 35, 50)>>,
    <<>>, <<Garbage>>,
    <<Obj(SidOf(1), Missing, Num(50), TsText)>>,
    <<Obj(SidOf(1), Str(<<7>>), Num(50), TsText)>>,
    <<Obj(SidOf(1), Num(20), Num(50), Num(5))>>,
    <<Obj(List, Num(20), Num(50), TsText)>>,
    <<Obj(Num(7), Num(20), Num(50), TsText)>> }

ParseStreams ==
  UNION { { Flatten([i \in 1..n |-> f[i] \o <<NL>>]) : f \in [1..n -> ParseLines] } :
          n \in 0..MaxLines }

InitParse ==
  \E s \in ParseStreams :
    InitWith([c \in Conns |-> IF c = 1 THEN s ELSE <<>>], {1}, NoSensors, <<>>)

NextParse ==
  \/ \E c \in Conns : WorkerLoop(c) \/ WorkerAdd(c)
  \/ \E c \in Conns : PeerFrame(c) \/ PeerClose(c)

SpecParse == InitParse /\ [][NextParse]_vars

\* a worker that is not between taking a line off its buffer and the end of
\* that reading's processing
Quiet(c) == Settled(c) /\ wpc[c] # "setdefault"

\* C8: a malformed frame (unparsable, a field missing, a field of a wrong type,
\* a sensor_id or timestamp that is no text) is dropped alone: no worker is
\* ended by it, and the statistics are those of the well-formed readings only
\* (their map keys, windows, averages, last and anomaly counts); the queue is
\* untouched.
C8_MalformedDropped ==
  /\ \A c \in Conns : wpc[c] # "crashed"
  /\ (\A c \in Conns : Quiet(c)) =>
       /\ sensors = [k \in DOMAIN goodlog |-> StatsAfter(goodlog[k])]
       /\ packet_queue = <<>>

\* ------------------------------------------------------------ SpecRace
\* Two connections, accepted at start-up, both reporting sensor "1": each peer
\* sends up to MaxLines readings, in range or too hot.
RaceStreams ==
  UNION { { Flatten([i \in 1..n |-> FrameOf(1, f[i], 50)]) : f \in [1..n -> {20, 35}] } :
          n \in 0..MaxLines }

InitRace ==
  \E s1 \in RaceStreams, s2 \in RaceStreams :
    InitWith([c \in Conns |-> IF c = 1 THEN s1 ELSE IF c = 2 THEN s2 ELSE <<>>],
             {1, 2}, NoSensors, <<>>)

NextRace ==
  \/ \E c \in Conns : WorkerLoop(c) \/ WorkerAdd(c)
  \/ \E c \in Conns : PeerFrame(c) \/ PeerClose(c)

SpecRace == InitRace /\ [][NextRace]_vars

\* C7: a sensor's anomaly count never decreases, and once the readings taken in
\* are processed it is the number of them outside [18,27] x [30,60], also when
\* two connections report the same sensor_id.
C7_AnomalyCount ==
  /\ [](AllSettled =>
          \A k \in DOMAIN sensors : sensors[k].anom = tally[k].bad)
  /\ [][\A k \in DOMAIN sensors : sensors'[k].anom >= sensors[k].anom]_vars

\* ------------------------------------------------------------ SpecSend
\* The sender, the queue, the flush routine and the battery thread, with the
\* collector failing or not on every connect and sendall. The sensors' windows
\* hold 9 in-range readings from earlier connections, so that every reading
\* taken in fills a window and calls send. Either one peer sends MaxFrames
\* readings, or two peers (sensors "1" and "2") send MaxPair readings each.
\* No accept loop: the connections were accepted at start-up and no further
\* peer connects.
Prefilled(cs) ==
  [k \in {SidOf(c) : c \in cs} |-> StatsAfter(Repeat(<<20, 50>>, FULL_LEN - 1))]

SendStreams(n1, n2) ==
  [c \in Conns |-> IF c = 1 THEN Flatten(Repeat(FrameOf(1, 20, 50), n1))
                   ELSE IF c = 2 THEN Flatten(Repeat(FrameOf(2, 20, 50), n2))
                   ELSE <<>>]

InitSend ==
  \/ InitWith(SendStreams(MaxFrames, 0), {1}, Prefilled({1}), <<>>)
  \/ InitWith(SendStreams(MaxPair, MaxPair), {1, 2}, Prefilled({1, 2}), <<>>)

\* Stats.add for a reading in range (no reading of SpecSend is out of range)
WorkerAddInRange(c) ==
  \/ WSetdefault(c) \/ WAddT(c) \/ WAddH(c) \/ WAvgT(c) \/ WAvgH(c)
  \/ WLast(c) \/ WLenChk(c)

NextSend ==
  \/ \E c \in Conns : WorkerLoop(c) \/ WorkerAddInRange(c) \/ WorkerSend(c)
  \/ \E c \in Conns : PeerFrame(c)
  \/ BatteryFolded

SpecSend == InitSend /\ [][NextSend]_vars

\* C2: while the gateway is CHARGING no packet is transmitted directly by
\* send: every transmission made by a send call happens with the charging flag
\* clear.
C2_NoDirectSendWhileCharging ==
  \A i \in 1..Len(sent) : sent[i].via = "send" => ~sent[i].chg

\* C3: a flush during which no sender appends transmits p1, p2, ... of the
\* queue q0 it found, in that order; if the transmit of pk is the first to fail
\* exactly p1..p(k-1) were transmitted, nothing after pk was attempted and the
\* queue afterwards is <<pk, ..., pn>>; if none fails the queue is empty.
C3_FlushDrainsInOrder ==
  (fl.done /\ fl.app = <<>>) =>
    LET n == Len(fl.tx)
    IN /\ n <= Len(fl.q0)
       /\ fl.tx = SubSeq(fl.q0, 1, n)
       /\ IF fl.failed
          THEN /\ n < Len(fl.q0)
               /\ fl.tried = SubSeq(fl.q0, 1, n + 1)
               /\ fl.endq = SubSeq(fl.q0, n + 1, Len(fl.q0))
          ELSE /\ fl.tried = fl.q0
               /\ fl.endq = <<>>

\* a flush of three queued packets that sent the first and failed on the second
C3_Witness ==
  /\ fl.done /\ fl.failed /\ fl.app = <<>>
  /\ Len(fl.q0) = 3 /\ Len(fl.tx) = 1 /\ Len(fl.endq) = 2

\* the number of places packet id is in: held by a send call, held by flush,
\* a position of the queue, an entry of the transmission log
Places(id) ==
  Cardinality({c \in Conns : pkt[c].id = id})
  + (IF fpacket.id = id THEN 1 ELSE 0)
  + Cardinality({i \in 1..Len(packet_queue) : packet_queue[i].id = id})
  + Cardinality({i \in 1..Len(sent) : sent[i].id = id})

\* C4: every SummaryPacket created is in exactly one place (in flight in the
\* send or flush call that holds it, once in the OutboundQueue, or transmitted
\* once): none is lost, none duplicated, none transmitted twice.
C4_NoLossNoDuplicate == \A id \in 1..created : Places(id) = 1

\* two workers have sent, a packet went out through flush after a power cycle
\* and the flush then failed on another
C4_Witness ==
  /\ fl.done /\ fl.failed
  /\ \E i \in 1..Len(sent) : sent[i].via = "flush"
  /\ \E i \in 1..Len(packet_queue) : packet_queue[i].sensor_id = SidOf(2)

\* a step in which worker c's send call ends after a failed connect or sendall
SendFailed(c) ==
  /\ wpc[c] \in {"conn", "tx"}
  /\ wpc'[c] = "frames"
  /\ sent' = sent

\* C9: a send call in which connecting or transmitting fails appends its packet
\* to the tail of the queue, exactly once, returns without a further connect
\* or transmit attempt, and leaves the persistent connection handle empty.
C9_FailedSendFallsBack ==
  [][/\ \A c \in Conns :
       SendFailed(c) =>
         /\ packet_queue' = Append(packet_queue, pkt[c])
         /\ Cardinality({i \in 1..Len(packet_queue') :
                           packet_queue'[i].id = pkt[c].id}) = 1
         /\ pkt[c].id \in returned' /\ pkt'[c] = NoPacket
         /\ sock' = "none"
         /\ lock' = 0
     /\ \A c \in Conns :
          (wpc[c] = "lock" /\ wpc'[c] # "lock" /\ sock = "none") =>
            wpc'[c] = "conn"]_vars

\* before any power transition: packet 1 went out on the persistent
\* connection, the sendall of packet 2 failed, packet 2 is queued and the
\* handle is empty
C9_Witness ==
  /\ battery_level = FULL_LEVEL /\ bpc = "tick"
  /\ Len(sent) = 1 /\ sent[1].id = 1 /\ sent[1].via = "send"
  /\ Len(packet_queue) = 1 /\ packet_queue[1].id = 2
  /\ sock = "none" /\ lock = 0 /\ returned = {1, 2}

\* C10: packets of failed sends are queued in send order (no packet is behind
\* one whose send call began after its own had returned); a send that succeeds
\* transmits only its own packet and leaves the queue as it is; a packet leaves
\* the queue only by the pop of the flush routine, which the battery thread
\* runs after it has switched back to RUNNING.
C10_QueueOnlyFlushed ==
  /\ [](\A i, j \in 1..Len(packet_queue) :
          i < j => packet_queue[j].id \notin before[packet_queue[i].id])
  /\ [][/\ \A c \in Conns :
             (wpc[c] = "tx" /\ wpc'[c] = "frames" /\ sent' # sent) =>
               /\ packet_queue' = packet_queue
               /\ sent' = Append(sent, [id |-> pkt[c].id, via |-> "send",
                                        chg |-> charging_event])
        /\ ~(Ids(packet_queue) \subseteq Ids(packet_queue')) =>
             /\ bpc = "flush" /\ bpc' = "flush_tx"
             /\ is_discharging /\ listening_event /\ ~charging_event
             /\ packet_queue' = Tail(packet_queue)]_vars

\* before any power transition: three sends in a row found the collector
\* unreachable, the fourth got through, and the three packets are still queued
C10_Witness ==
  /\ battery_level = FULL_LEVEL /\ bpc = "tick"
  /\ [i \in 1..Len(packet_queue) |-> packet_queue[i].id] = <<1, 2, 3>>
  /\ Len(sent) = 1 /\ sent[1].id = 4 /\ sent[1].via = "send"

\* ------------------------------------------------------------ accept loop
\* The accept loop, the battery thread and the connection workers. No
\* connection is open at start-up; each peer connects when the endpoint is
\* open, sends one line that is not JSON or nothing at all, and may close.
\* Nothing is ever queued, so flush_queue finds the queue empty.
ListenStreams == [Conns -> {<<>>, <<Garbage, NL>>}]

InitListen ==
  \E streams \in ListenStreams : InitWith(streams, {}, NoSensors, <<>>)

NextListen ==
  \/ Listener
  \/ BRun \/ BLowClear \/ BLowSet \/ BFullSet \/ BFullClear \/ BFlush
  \/ \E c \in Conns :
       PeerConnect(c) \/ WorkerLoop(c) \/ PeerFrame(c) \/ PeerClose(c)

SpecListen == InitListen /\ [][NextListen]_vars

\* a step in which the accept loop accepts connection c
Accepted(c) == wpc[c] = "backlog" /\ wpc'[c] = "check"

\* C5 as stated: no connection is accepted in a state where the listening flag
\* has been cleared and not yet set again.
C5_NoAcceptWhileCleared == [][\A c \in Conns : Accepted(c) => listening_event]_vars

\* C5: between a clearing of the listening flag and its next setting at most
\* one connection is accepted, by the accept call the loop had already reached
\* on the endpoint that was open when the flag was cleared; once the loop has
\* closed the endpoint nothing is accepted and no endpoint is opened until the
\* flag is set again.
C5_AtMostOneAcceptWhileCleared ==
  /\ [](acc <= 1)
  /\ [][/\ \A c \in Conns :
             (Accepted(c) /\ ~listening_event) =>
               lpc = "acc" /\ lsock = "open" /\ acc = 0
        /\ (~listening_event /\ lsock = "none") =>
             /\ lsock' = "none"
             /\ \A c \in Conns : ~Accepted(c) /\ wpc'[c] # "backlog"]_vars

\* a connection has been accepted with the flag cleared, its worker has left
\* at its first check of the flag, and the loop has then closed the endpoint
C5_Witness ==
  /\ ~listening_event /\ acc = 1 /\ lsock = "none" /\ lpc = "acc"
  /\ \E c \in Conns : wpc[c] = "done" /\ ~closed[c]

\* C6: no worker that was running when the listening flag was cleared is still
\* running once the flag has been set again.
C6_WorkersExitWhenStopped ==
  listening_event => \A c \in pre : ~Running(c)

\* ------------------------------------------------------------ battery thread
\* The battery thread alone, one iteration of its loop at a time, with no
\* sensor connected and nothing queued: discharge from 100 to 15, the switch to
\* CHARGING, charge back to 100, the switch to RUNNING and the call of
\* flush_queue, over and over.
InitBattery ==
  InitWith([c \in Conns |-> <<>>], {}, NoSensors, <<>>)

NextBattery ==
  BTick \/ BLowClear \/ BLowSet \/ BFullSet \/ BFullClear \/ BFlush

SpecBattery == InitBattery /\ [][NextBattery]_vars

\* a step that is an iteration of the battery loop
Ticked == battery_level' # battery_level

\* C11: the level moves by exactly 1 per tick, down while discharging and up
\* while charging, and stays within [0,100]; the switch RUNNING->CHARGING is
\* made on exactly the discharge ticks that bring the level to 15 or below, the
\* switch CHARGING->RUNNING on exactly the charge ticks that bring it to 100 or
\* above, and a tick makes at most one of the two.
C11_TwoStateBattery ==
  /\ [](battery_level \in 0..100)
  /\ [][/\ bpc = "tick" /\ bpc' # "tick" => Ticked
        /\ Ticked =>
             /\ bpc = "tick"
             /\ battery_level' =
                  battery_level + (IF is_discharging THEN -1 ELSE 1)
        /\ (is_discharging /\ ~is_discharging') <=>
             (Ticked /\ is_discharging /\ battery_level' <= 15)
        /\ (~is_discharging /\ is_discharging') <=>
             (Ticked /\ ~is_discharging /\ battery_level' >= 100)
        /\ (is_discharging /\ ~is_discharging') => bpc' = "low_clear"
        /\ (~is_discharging /\ is_discharging') => bpc' = "full_set"
        /\ (Ticked /\ is_discharging' = is_discharging) => bpc' = "tick"]_vars

\* the charge tick from 99 to 100 has just switched the thread back to RUNNING
C11_Witness ==
  battery_level = 100 /\ is_discharging /\ bpc = "full_set" /\ charging_event

\* a step that calls flush_queue
FlushInvoked == ~fl.on /\ fl'.on

\* C12: flush_queue is called exactly once for each switch CHARGING->RUNNING
\* (fl.owed counts the switches not yet followed by their call), by the battery
\* thread once is_discharging is true again, the listening flag is set and the
\* charging flag cleared; it is called by no other step and runs at no other
\* time.
C12_FlushOncePerRecharge ==
  /\ [](/\ fl.owed \in {0, 1}
        /\ fl.owed = 1 <=> bpc \in {"full_set", "full_clear"}
        /\ fl.on <=> bpc \in {"flush", "flush_tx", "flush_requeue"})
  /\ [][/\ FlushInvoked =>
             /\ bpc = "full_clear" /\ bpc' = "flush"
             /\ fl.owed = 1 /\ fl'.owed = 0
             /\ is_discharging /\ battery_level >= FULL_LEVEL
             /\ listening_event' /\ ~charging_event'
        /\ (~is_discharging /\ is_discharging') => fl.owed = 0 /\ fl'.owed = 1
        /\ (\E c \in Conns : wpc'[c] # wpc[c]) => fl'.on = fl.on]_vars

\* a call of flush_queue made after a recharge has sent a queued packet and
\* returned
C12_Witness ==
  /\ fl.done /\ fl.owed = 0 /\ Len(fl.tx) >= 1 /\ bpc = "tick"
  /\ is_discharging /\ listening_event /\ ~charging_event

\* ------------------------------------------------------------ shared window
\* Two connections open at once that both report sensor "1", whose windows
\* already hold nine readings; each peer sends up to one reading, 20 degrees
\* at 50 % or 35 degrees at 70 %, so that a window fills and send is called
\* while the other worker may be anywhere in Stats.add.
SharedStreams == {<<>>, FrameOf(1, 20, 50), FrameOf(1, 35, 70)}

InitShared ==
  \E s1 \in SharedStreams, s2 \in SharedStreams :
    InitWith([c \in Conns |-> IF c = 1 THEN s1 ELSE IF c = 2 THEN s2 ELSE <<>>],
             {1, 2}, Prefilled({1}), <<>>)

NextShared ==
  \/ \E c \in Conns : WorkerLoop(c) \/ WorkerAdd(c) \/ WorkerSend(c)
  \/ \E c \in Conns : PeerFrame(c) \/ PeerClose(c)

SpecShared == InitShared /\ [][NextShared]_vars

\* two means, each a pair <<sum, count>>, are the same number
SameMean(a, b) == a[1] * b[2] = b[1] * a[2]

\* a step in which worker c calls send_avg
SendCalled(c) == wpc[c] = "call" /\ wpc'[c] = "chk_chg"

\* C13: whenever send is called for a sensor, the avg_temp and avg_hum it is
\* handed are the arithmetic means of the sensor's 10 most recent temperatures
\* and humidities at that moment.
C13_AvgIsWindowMean ==
  [][\A c \in Conns :
       SendCalled(c) =>
         LET st == sensors[sid[c]]
         IN /\ Len(st.t) = FULL_LEN /\ Len(st.h) = FULL_LEN
            /\ SameMean(st.avg_t, Mean(st.t))
            /\ SameMean(st.avg_h, Mean(st.h))
            /\ pkt'[c].avg_temp = Round2(Mean(st.t))
            /\ pkt'[c].avg_hum = Round2(Mean(st.h))]_vars

\* the position of packet id in queue q, 0 if it is not there
Pos(q, id) ==
  IF \E i \in 1..Len(q) : q[i].id = id
  THEN CHOOSE i \in 1..Len(q) : q[i].id = id
  ELSE 0

\* the packet flush_queue has popped and not yet sent or put back
InFlight == IF fpacket = NoPacket THEN <<>> ELSE <<fpacket>>

\* C14: the queue stays first-in first-out while flush_queue and send calls
\* interleave. Two packets that are in the queue before and after a step keep
\* their order; what flush has transmitted, then the packet it holds, then the
\* queue is always the queue flush found followed by the packets appended since
\* (so it transmits in queue order); and a packet put back after a failed
\* transmit is first, in front of the packets that were behind it and of those
\* appended while it was out.
C14_FifoUnderConcurrency ==
  /\ [](fl.on => fl.tx \o InFlight \o packet_queue = fl.q0 \o fl.app)
  /\ [](fl.done => fl.tx \o fl.endq = fl.q0 \o fl.app)
  /\ [][/\ \A x, y \in Ids(packet_queue) \cap Ids(packet_queue') :
             Pos(packet_queue, x) < Pos(packet_queue, y) =>
               Pos(packet_queue', x) < Pos(packet_queue', y)
        /\ (bpc = "flush_requeue" /\ bpc' = "tick") =>
             /\ packet_queue' = <<fpacket>> \o packet_queue
             /\ packet_queue' =
                  SubSeq(fl.q0 \o fl.app, Len(fl.tx) + 1,
                         Len(fl.q0) + Len(fl.app))]_vars

\* flush_queue found two packets, sent the first and failed on the second
\* while a send call appended a third: the queue is the second, then the third
C14_Witness ==
  /\ fl.done /\ fl.failed /\ Len(fl.q0) = 2 /\ Len(fl.tx) = 1 /\ Len(fl.app) = 1
  /\ packet_queue = <<fl.q0[2], fl.app[1]>>

\* ------------------------------------------------------------ progress
\* SpecSend with the scheduling the threads get: a worker that can take a step
\* of a send call eventually takes it (the interpreter switches threads, and
\* create_connection and sendall return or raise within their 2 s timeout).
SpecSendLive ==
  SpecSend /\ \A c \in Conns : WF_vars(WorkerSend(c))

\* worker c is inside the with block of send
InLock(c) == wpc[c] \in {"conn", "tx"}

\* C15: the sender lock is the only lock. It is held by exactly the worker that
\* is inside the with block, that worker waits for nothing but its own network
\* call, and every way out of the block (sent, connect failed, sendall failed)
\* releases the lock; the battery thread and flush_queue never touch it; so a
\* holder always releases and a worker waiting for the lock always gets it.
C15_NoDeadlock ==
  /\ [](\A c \in Conns : lock = c <=> InLock(c))
  /\ [][/\ \A c \in Conns :
             (InLock(c) /\ ~InLock(c)') => lock' = 0 /\ wpc'[c] = "frames"
        /\ lock' # lock => \E c \in Conns : wpc'[c] # wpc[c]
        /\ bpc' # bpc => lock' = lock]_vars
  /\ \A c \in Conns : (lock = c) ~> (lock = 0)
  /\ \A c \in Conns : (wpc[c] = "lock") ~> InLock(c)

\* one worker is inside the with block while the other waits for the lock
C15_Witness ==
  \E c, d \in Conns : lock = c /\ InLock(c) /\ wpc[d] = "lock"

\* C16 as stated: in every reachable state the listening flag is set if and
\* only if the charging flag is clear.
C16_GatesAlwaysMatch == listening_event <=> ~charging_event

\* C16: the two flags match, and match the battery thread's is_discharging,
\* in every state except between the two flag updates of a switch: after
\* listening_event.clear() and before charging_event.set() both flags are
\* clear, after listening_event.set() and before charging_event.clear() both
\* are set. Only the battery thread changes either flag.
C16_GatesMatchOutsideSwitch ==
  /\ [](/\ bpc \notin {"low_clear", "low_set", "full_set", "full_clear"} =>
             /\ listening_event <=> ~charging_event
             /\ listening_event <=> is_discharging
        /\ bpc = "low_clear" => listening_event /\ ~charging_event
        /\ bpc = "low_set" => ~listening_event /\ ~charging_event
        /\ bpc = "full_set" => ~listening_event /\ charging_event
        /\ bpc = "full_clear" => listening_event /\ charging_event)
  /\ [][<<listening_event, charging_event>>' # <<listening_event, charging_event>>
          => /\ bpc \in {"low_clear", "low_set", "full_set", "full_clear"}
             /\ bpc' # bpc
             /\ wpc' = wpc]_vars

\* the switch back to RUNNING has set the listening flag and not yet cleared
\* the charging flag, while a worker is in a send call
C16_Witness ==
  /\ bpc = "full_clear" /\ listening_event /\ charging_event
  /\ \E c \in Conns : wpc[c] = "chk_chg"

\* ------------------------------------------------------------ shutdown
\* main, line 307: stop_event.set(), once the window has been closed
Stop ==
  /\ ~stop_event
  /\ stop_event' = TRUE
  /\ UNCHANGED <<listening_event, charging_event, bat, snd, lis, wrk, net,
                 sensors, hist>>

\* The accept loop, the battery thread, the connection workers and their
\* peers as in SpecListen, and the shutdown signal, which may be set at any
\* moment.
NextStop == NextListen \/ Stop

SpecStop == InitListen /\ [][NextStop]_vars

\* SpecStop with the scheduling the gateway's threads get: the accept loop and
\* each worker take the steps they can take, and the battery thread completes
\* a switch it has begun. Nothing is assumed of the peers: a peer may stay
\* connected and silent for ever.
SpecStopLive ==
  /\ SpecStop
  /\ WF_vars(Listener)
  /\ WF_vars(BLowClear \/ BLowSet \/ BFullSet \/ BFullClear \/ BFlush)
  /\ \A c \in Conns : WF_vars(WorkerLoop(c))

\* C17: once stop_event is set the accept loop and every connection worker
\* eventually exit, whatever the peers do; the step that sets it starts no
\* flush and leaves the queue alone.
C17_ShutdownStopsAll ==
  /\ stop_event ~> (lpc = "exit" /\ \A c \in Conns : ~Running(c))
  /\ [][(~stop_event /\ stop_event') =>
          ~FlushInvoked /\ packet_queue' = packet_queue /\ bpc' = bpc]_vars

\* ------------------------------------------------------------ endpoint
\* A power period outlasts a turn of the accept loop: the battery needs 85
\* ticks of BATTERY_STEP_SEC = 1 s or CHARGE_STEP_SEC = 0.2 s between two
\* switches, a turn of the loop takes at most the 1 s accept timeout. So when
\* the battery thread changes the listening flag the loop has caught up with
\* the previous change.
PeriodOutlastsLoop ==
  listening_event' # listening_event =>
    IF listening_event THEN lsock = "open" ELSE lsock = "none"

NextListenTimed == NextListen /\ PeriodOutlastsLoop

\* SpecListen under that timing, with the accept loop taking the steps it can
\* take and the battery thread completing a switch it has begun
SpecListenTimed ==
  /\ InitListen /\ [][NextListenTimed]_vars
  /\ WF_vars(Listener)
  /\ WF_vars(BLowClear \/ BLowSet \/ BFullSet \/ BFullClear \/ BFlush)

\* C18: after the listening flag is cleared the accept loop closes its
\* endpoint, at its next check of the flag, and opens none while the flag stays
\* cleared; after the flag is set it opens an endpoint, bound after the old one
\* was closed, and a connection waiting on it is accepted; an endpoint is bound
\* only when none is open, so there are never two.
C18_EndpointFollowsPower ==
  /\ [](/\ ep.n \in {0, 1}
        /\ ep.n = 1 <=> lsock = "open"
        /\ (lsock = "open" /\ ep.closed) => ep.re)
  /\ [][/\ (lpc = "pause" /\ lpc' = "acc" /\ ~listening_event) => lsock' = "none"
        /\ (~listening_event /\ lsock = "none") => lsock' = "none"
        /\ ep'.n > ep.n =>
             ep.n = 0 /\ lsock = "none" /\ listening_event /\ lpc = "top"]_vars
  /\ ~listening_event ~> (lsock = "none" /\ ~listening_event)
  /\ listening_event ~> (lsock = "open" /\ listening_event)
  /\ \A c \in Conns : (c \in backlog) ~> (c \notin backlog)

\* after a STOPPED period in which the endpoint was closed a new endpoint is
\* open and a sensor has connected to it
C18_Witness ==
  /\ listening_event /\ lsock = "open" /\ ep.n = 1 /\ ep.closed /\ ep.re
  /\ backlog # {}

\* the smaller of two numbers
Min(a, b) == IF a < b THEN a ELSE b

\* C19: whenever no reading is being added, the temperature window and the
\* humidity window of every sensor have the same length, min(n, 10) after n
\* readings, and hold readings of the sensor: the i-th temperature and the
\* i-th humidity are those of one reading; an entry, once created, stays.
C19_WindowsHoldReadings ==
  /\ [](( \A c \in Conns : Quiet(c)) =>
          \A k \in DOMAIN sensors :
            LET st == sensors[k]
            IN /\ Len(st.t) = Len(st.h)
               /\ Len(st.t) = Min(Len(goodlog[k]), MAXLEN)
               /\ \A i \in 1..Len(st.t) :
                    <<st.t[i], st.h[i]>> \in Range(goodlog[k]))
  /\ [][DOMAIN sensors \subseteq DOMAIN sensors']_vars

\* ------------------------------------------------------------ framing
\* One connection whose peer's bytes reach the gateway cut anywhere: the
\* stream is any sequence of up to MaxUnits units (two readings, a piece of
\* text that is no JSON, the newline), so it holds well-formed lines, malformed
\* lines, empty lines and a partial last line. NetDeliver hands over any
\* number of units at a time, and recv takes what has arrived.
MaxUnits == 5

FramingUnits == {Reading(1, 20, 50), Reading(1, 21, 50), Garbage, NL}

FramingStreams ==
  UNION {[1..n -> FramingUnits] : n \in 0..MaxUnits}

InitFraming ==
  \E s \in FramingStreams :
    InitWith([c \in Conns |-> IF c = 1 THEN s ELSE <<>>], {1}, NoSensors, <<>>)

NextFraming ==
  \/ \E c \in Conns : WorkerLoop(c) \/ WorkerAddInRange(c)
  \/ \E c \in Conns, k \in 1..MaxUnits : NetDeliver(c, k)
  \/ \E c \in Conns : PeerClose(c)

SpecFraming == InitFraming /\ [][NextFraming]_vars

\* the newline-terminated lines of s that are frames, each with its newline,
\* followed by the partial last line of s
RECURSIVE Kept(_)
Kept(s) ==
  LET i == IndexOf(s, NL, 1)
      line == SubSeq(s, 1, i - 1)
  IN IF i = 0 THEN s
     ELSE (IF WellFormed(line) THEN line \o <<NL>> ELSE <<>>)
          \o Kept(SubSeq(s, i + 1, Len(s)))

\* the frames dispatched so far for sensor id k, written back as lines
Dispatched(k) ==
  IF k \in DOMAIN goodlog
  THEN Flatten([i \in 1..Len(goodlog[k]) |->
                 <<Obj(k, Num(goodlog[k][i][1]), Num(goodlog[k][i][2]), TsText), NL>>])
  ELSE <<>>

\* what connection c has dispatched, then what it buffers, then what has
\* arrived and not been read, then what the peer has yet to send
Whole(c) == Dispatched(SidOf(c)) \o Kept(buf[c] \o wire[c] \o stream[c])

\* C20: framing does not depend on how the stream is cut into reads: however
\* the bytes arrive, the frames dispatched so far followed by the frames of
\* what is still buffered, in flight or unsent are always the frames of the
\* whole stream in their order (so a line is dispatched exactly once, in
\* arrival order, and only once its newline is there), and between two reads
\* the buffer holds no newline: only the partial last line stays in it.
C20_FramingIgnoresChunking ==
  /\ [][Whole(1)' = Whole(1)]_vars
  /\ [](wpc[1] \in {"check", "recv", "done"} => NL \notin Range(buf[1]))

\* two lines have been dispatched in their order and the partial last line
\* waits in the buffer, with nothing more to come
C20_Witness ==
  /\ wpc[1] = "recv"
  /\ SidOf(1) \in DOMAIN goodlog
  /\ goodlog[SidOf(1)] = <<<<20, 50>>, <<21, 50>>>>
  /\ buf[1] = <<Reading(1, 20, 50)>>
  /\ wire[1] = <<>>
  /\ stream[1] = <<>>

\* ------------------------------------------------------------ disable
\* One connection accepted before the battery runs low, whose sensor goes on
\* sending through the switch to CHARGING and back: up to MaxLate frames that
\* arrive cut anywhere, at any time.
MaxLate == 3

DisableStreams ==
  {Flatten([i \in 1..n |-> FrameOf(1, 20, 50)]) : n \in 0..MaxLate}

InitDisable ==
  \E s \in DisableStreams :
    InitWith([c \in Conns |-> IF c = 1 THEN s ELSE <<>>], {1}, NoSensors, <<>>)

NextDisable ==
  \/ BRun \/ BLowClear \/ BLowSet \/ BFullSet \/ BFullClear \/ BFlush
  \/ \E c \in Conns : WorkerLoop(c) \/ WorkerAddInRange(c)
  \/ \E c \in Conns, k \in 1..(2 * MaxLate) : NetDeliver(c, k)
  \/ \E c \in Conns : PeerClose(c)

SpecDisable == InitDisable /\ [][NextDisable]_vars

\* a step in which the recv of worker c returns bytes
Read(c) == wpc[c] = "recv" /\ wpc'[c] = "frames"

\* C21: once the listening flag is cleared and while it stays cleared, a worker
\* has at most one recv return bytes; it dispatches every complete frame of
\* what it has read, and at its next test of the flag it leaves the loop instead
\* of reading again.
C21_OneReadAfterDisable ==
  /\ [][\A c \in Conns :
         /\ (Read(c) /\ ~listening_event) => c \notin late
         /\ (c \in late /\ ~listening_event /\ wpc[c] = "check"
               /\ wpc'[c] # "check") => wpc'[c] = "done"]_vars
  /\ [](\A c \in late : wpc[c] \in {"check", "done"} => NL \notin Range(buf[c]))

\* with the flag cleared the worker has read once more, dispatched the two
\* frames it read and left, while a further frame has arrived and stays unread
C21_Witness ==
  /\ ~listening_event
  /\ late = {1}
  /\ wpc[1] = "done"
  /\ wire[1] = FrameOf(1, 20, 50)
  /\ SidOf(1) \in DOMAIN goodlog
  /\ Len(goodlog[SidOf(1)]) = 2

\* ------------------------------------------------------------ the persistent connection
\* worker c is inside the with block of send, connecting or writing
InSock(c) == wpc[c] \in {"conn", "tx"}

\* C22: with sends running concurrently, send holds at most one open collector
\* connection and the handle is non-empty exactly when it holds one; at most
\* one thread at a time is connecting or writing; a connection is opened only
\* with the handle empty; and a handle left non-empty by a send stays as it is
\* until the next send takes the lock, which then writes to it without
\* connecting.
C22_OnePersistentConnection ==
  /\ [](held <= 1 /\ (sock = "open" <=> held = 1))
  /\ [](\A c, d \in Conns : (InSock(c) /\ InSock(d)) => c = d)
  /\ [](\A c \in Conns : InSock(c) => lock = c)
  /\ [](\A c \in Conns : wpc[c] = "tx" => sock = "open")
  /\ [][held' > held => (sock = "none" /\ held = 0)]_vars
  /\ [][(lock = 0 /\ sock = "open") =>
         /\ sock' = "open" /\ held' = held
         /\ \A c \in Conns : wpc'[c] # "conn"]_vars

\* the send of one worker has written to the connection and left it open, and
\* the send of the other worker, holding the lock, is about to write to it
C22_Witness ==
  /\ held = 1 /\ sock = "open"
  /\ wpc[2] = "tx" /\ lock = 2
  /\ \E i \in 1..Len(sent) : sent[i].via = "send" /\ sent[i].id # pkt[2].id

\* ------------------------------------------------------------ flush_queue without end
\* The same steps with the history left as it was, so that a run of any length
\* stays within finitely many states: WFrame, WSetdefault, WCall, WChkChg,
\* WConn, WTx and BFlushTx below differ from the actions of those names only in
\* what they note in the history. Every summary packet is given the same id:
\* here a packet's identity plays no part.
BareFrame(c) ==
  /\ wpc[c] = "frames"
  /\ LET i == IndexOf(buf[c], NL, 1)
     IN IF i = 0
        THEN /\ wpc' = [wpc EXCEPT ![c] = "check"]
             /\ UNCHANGED <<buf, sid, cur>>
        ELSE LET p == ParseLine(SubSeq(buf[c], 1, i - 1), sid[c])
             IN /\ buf' = [buf EXCEPT ![c] = SubSeq(@, i + 1, Len(@))]
                /\ sid' = [sid EXCEPT ![c] = p.sid]
                /\ cur' = [cur EXCEPT ![c] =
                            IF p.ok THEN [t |-> p.t, h |-> p.h, ts |-> p.ts] ELSE @]
                /\ wpc' = [wpc EXCEPT ![c] = IF p.ok THEN "setdefault" ELSE "frames"]
  /\ UNCHANGED <<flags, bat, snd, lis, reg, pkt, net, sensors, hist>>

\* line 159: st = sensors.setdefault(sid, Stats())
BareSetdefault(c) ==
  /\ wpc[c] = "setdefault"
  /\ IF ~Hashable(sid[c])
     THEN /\ wpc' = [wpc EXCEPT ![c] = "crashed"]
          /\ UNCHANGED sensors
     ELSE /\ wpc' = [wpc EXCEPT ![c] = "add_t"]
          /\ sensors' = IF sid[c] \in DOMAIN sensors THEN sensors
                        ELSE sensors @@ (sid[c] :> NewStats)
  /\ UNCHANGED <<flags, bat, snd, lis, buf, sid, cur, reg, pkt, net, hist>>

\* lines 164 and 205: send_avg(sid, st.avg_t, st.avg_h, st.anom) builds the packet
BareCall(c) ==
  /\ wpc[c] = "call"
  /\ LET st == sensors[sid[c]]
     IN pkt' = [pkt EXCEPT ![c] =
                 MakePacket(created + 1, sid[c], st.avg_t, st.avg_h, st.anom)]
  /\ wpc' = [wpc EXCEPT ![c] = "chk_chg"]
  /\ UNCHANGED <<flags, bat, snd, lis, buf, sid, cur, reg, net, sensors, hist>>

\* packet_queue.append(packet) and the return, with the lock released if held
BareFallback(c) ==
  /\ packet_queue' = QueuePut(packet_queue, pkt[c])
  /\ pkt' = [pkt EXCEPT ![c] = NoPacket]
  /\ wpc' = [wpc EXCEPT ![c] = "frames"]

\* lines 207-209: if charging_event.is_set(): packet_queue.append(packet); return
BareChkChg(c) ==
  /\ wpc[c] = "chk_chg"
  /\ IF charging_event
     THEN BareFallback(c)
     ELSE /\ wpc' = [wpc EXCEPT ![c] = "lock"]
          /\ UNCHANGED <<packet_queue, pkt>>
  /\ UNCHANGED <<flags, bat, sock, lock, lis, buf, sid, cur, reg, net, sensors,
                 hist>>

\* lines 214-219: sock = socket.create_connection(..., timeout=2); when it
\* raises: log, packet_queue.append(packet), return
BareConn(c) ==
  /\ wpc[c] = "conn"
  /\ \E ok \in BOOLEAN :
       IF ok
       THEN /\ sock' = "open"
            /\ wpc' = [wpc EXCEPT ![c] = "tx"]
            /\ UNCHANGED <<packet_queue, lock, pkt>>
       ELSE /\ BareFallback(c)
            /\ lock' = 0
            /\ UNCHANGED sock
  /\ UNCHANGED <<flags, bat, lis, buf, sid, cur, reg, net, sensors, hist>>

\* lines 220-226: sock.sendall(message), or the exception handler: log,
\* sock.close(), sock = None, packet_queue.append(packet)
BareTx(c) ==
  /\ wpc[c] = "tx"
  /\ \E ok \in BOOLEAN :
       IF ok
       THEN /\ pkt' = [pkt EXCEPT ![c] = NoPacket]
            /\ wpc' = [wpc EXCEPT ![c] = "frames"]
            /\ UNCHANGED <<packet_queue, sock>>
       ELSE /\ sock' = "none"
            /\ BareFallback(c)
  /\ lock' = 0
  /\ UNCHANGED <<flags, bat, lis, buf, sid, cur, reg, net, sensors, hist>>

\* lines 236-241: a fresh connection and sendall of the packet, or an exception
BareFlushTx ==
  /\ bpc = "flush_tx"
  /\ \E ok \in BOOLEAN :
       IF ok
       THEN /\ fpacket' = NoPacket
            /\ bpc' = "flush"
       ELSE /\ bpc' = "flush_requeue"
            /\ UNCHANGED fpacket
  /\ UNCHANGED <<flags, battery_level, is_discharging, snd, lis, wrk, net,
                 sensors, hist>>

\* sensor.py lines 29-33: the sensor's loop has no end: it sends one more
\* reading, here once the previous one has been read and while fewer than
\* MaxBacklog packets are queued
MaxBacklog == 2

PeerSend(c) ==
  /\ Running(c)
  /\ ~closed[c]
  /\ wire[c] = <<>>
  /\ Len(packet_queue) < MaxBacklog
  /\ wire' = [wire EXCEPT ![c] = FrameOf(c, 20, 50)]
  /\ UNCHANGED <<flags, bat, snd, lis, wrk, stream, closed, sensors, hist>>

BareWorker(c) ==
  \/ WCheck(c) \/ WRecv(c) \/ BareFrame(c) \/ BareSetdefault(c)
  \/ WAddT(c) \/ WAddH(c) \/ WAvgT(c) \/ WAvgH(c) \/ WLast(c) \/ WLenChk(c)
  \/ BareCall(c) \/ BareChkChg(c) \/ WLock(c) \/ BareConn(c) \/ BareTx(c)

\* flush_queue and the switches of the battery thread
BareSwitch ==
  \/ BLowClear \/ BLowSet \/ BFullSet \/ BFullClear
  \/ BFlush \/ BareFlushTx \/ BFlushRequeue

\* one sensor, connected at start-up with 9 readings in its windows, that
\* never stops sending
InitFlush ==
  InitWith([c \in Conns |-> <<>>], {1}, Prefilled({1}), <<>>)

NextFlush ==
  \/ BRun
  \/ BareSwitch
  \/ \E c \in Conns : BareWorker(c)
  \/ \E c \in Conns : PeerSend(c)

\* the battery thread completes a switch and goes on in flush_queue, and every
\* worker goes on when it can
SpecFlushLive ==
  /\ InitFlush /\ [][NextFlush]_vars
  /\ WF_vars(BareSwitch)
  /\ \A c \in Conns : WF_vars(BareWorker(c))

\* the battery thread is inside flush_queue
InFlush == bpc \in {"flush", "flush_tx", "flush_requeue"}

\* C23: every call of flush_queue returns: the battery thread, once inside
\* flush_queue, is back at the top of its loop later on, whatever the collector
\* does and while workers append to the queue.
C23_FlushTerminates == InFlush ~> (bpc = "tick")

====
